---- MODULE Spec2Model ----
(***************************************************************************)
(* The two data-fetching hooks of fetch-app, useFetchWithObject (cache in  *)
(* a module-level object) and useFetchWithIndexedDb (cache in a localForage *)
(* store), as a state machine.  A controller is one mounted instance of a  *)
(* hook; an operation is one invocation of its async fetchData.            *)
(***************************************************************************)
EXTENDS Integers, Sequences, FiniteSets, TLC

(* ---- bounds ---- *)
MaxOps == 2                      \* fetchData invocations in one behaviour

Ctrls == {"c1", "c2"}            \* hook instances
Empty == ""                      \* the url that `!url` rejects
Urls == {"/a", "/b"}             \* non-empty urls
Hooks == {"object", "indexedDb"}

(* JSON values a response body can hold.  "undefined" is the JavaScript    *)
(* value of a missing property, never a JSON value.                        *)
Undefined == "undefined"
Null == "null"
Json == {"[post]", "[]", Null}

(* Errors that can be thrown inside fetchData. *)
StatusTexts == {"Not Found"}
TypeError == "TypeError: Failed to fetch"
SyntaxError == "SyntaxError: bad JSON"
StoreError == "DOMException: store"
TransportErrors == StatusTexts \cup {TypeError, SyntaxError}

(* A truthiness test that also takes the empty array for falsy. *)
TruthyNonEmpty(v) == v \notin {"undefined", "null", "[]"}

(* A presence test: everything but undefined passes, null too. *)
TruthyPresent(v) == v # "undefined"

(* JavaScript ToBoolean on the values above: null and undefined are falsy, *)
(* arrays (the empty one too) are truthy.                                  *)
Truthy(v) == v \notin {Undefined, Null}

VARIABLES
    hook,           \* which of the two hooks the pages use
    cache,          \* url -> cached value (the cache object / the cacheDb store)
    status,         \* controller -> "fresh" | "mounted" | "unmounted"
    url,            \* controller -> the url prop of the last effect run
    cancelRequest,  \* controller -> cancelRequest.current
    state,          \* controller -> the reducer state
    ops,            \* operation number -> the fetchData invocation in flight
    nOps,           \* operations started so far
    nFetch          \* fetch(url, options) calls made so far

vars == <<hook, cache, status, url, cancelRequest, state, ops, nOps, nFetch>>

OpIds == 1..MaxOps

(* ---- reducers ---- *)
initialStateObject == [data |-> Undefined, error |-> Undefined, isLoading |-> Undefined]
initialStateIndexedDb == [data |-> Undefined, error |-> Undefined, isLoading |-> "false"]
initialState == IF hook = "object" THEN initialStateObject ELSE initialStateIndexedDb

LoadingAction == [type |-> "loading", payload |-> Undefined]
FetchedAction(p) == [type |-> "fetched", payload |-> p]
ErrorAction(e) == [type |-> "error", payload |-> e]

(* A reducer that spreads the previous state, not initialState. *)
fetchReducerMerge(s, a) ==
    CASE a.type = "loading" -> [s EXCEPT !.isLoading = "true"]
      [] a.type = "fetched" -> [s EXCEPT !.data = a.payload, !.isLoading = "false"]
      [] a.type = "error" -> [s EXCEPT !.error = a.payload, !.isLoading = "false"]
      [] OTHER -> s

fetchReducerObject(s, a) ==
    CASE a.type = "loading" -> [initialStateObject EXCEPT !.isLoading = "true"]
      [] a.type = "fetched" -> [initialStateObject EXCEPT !.data = a.payload, !.isLoading = "false"]
      [] a.type = "error" -> [initialStateObject EXCEPT !.error = a.payload, !.isLoading = "false"]
      [] OTHER -> s

fetchReducerIndexedDb(s, a) ==
    CASE a.type = "loading" -> initialStateIndexedDb
      [] a.type = "fetched" -> [initialStateIndexedDb EXCEPT !.data = a.payload]
      [] a.type = "error" -> [initialStateIndexedDb EXCEPT !.error = a.payload]
      [] OTHER -> s

fetchReducer(s, a) ==
    IF hook = "object" THEN fetchReducerObject(s, a) ELSE fetchReducerIndexedDb(s, a)

(* ---- cache ---- *)
(* cache[url] on the object: a missing key reads as undefined. *)
CacheRead(k) == cache[k]
(* A getItem that reads a stored null as a missing property. *)
getItemAbsent(k) == IF cache[k] = "null" THEN "undefined" ELSE cache[k]

(* cacheDb.getItem(url): a missing key reads as null. *)
getItem(k) == IF cache[k] = Undefined THEN Null ELSE cache[k]

(* ---- operations ---- *)
(* An operation in flight: its controller and url, the await it is parked  *)
(* at (pc), the parsed body it holds (data), and stale: the cleanup of the *)
(* effect run that started it has run.  A finished one keeps no field.     *)
NoOp == [ctrl |-> "none", url |-> Empty, pc |-> "none", data |-> Undefined, stale |-> FALSE]
DoneOp == [NoOp EXCEPT !.pc = "done"]

(* dispatch(a) for each action of the sequence as, in order, on state s.   *)
RECURSIVE dispatch(_, _)
dispatch(s, as) == IF as = <<>> THEN s ELSE dispatch(fetchReducer(s, Head(as)), Tail(as))

(* A resumption of operation o that dispatches the actions in as. *)
Resume(o, as) == state' = [state EXCEPT ![ops[o].ctrl] = dispatch(@, as)]

Init ==
    /\ hook \in Hooks
    /\ cache = [k \in Urls |-> Undefined]
    /\ status = [c \in Ctrls |-> "fresh"]
    /\ url = [c \in Ctrls |-> Empty]
    /\ cancelRequest = [c \in Ctrls |-> FALSE]
    /\ state = [c \in Ctrls |-> initialState]
    /\ ops = [o \in OpIds |-> NoOp]
    /\ nOps = 0
    /\ nFetch = 0

(* ---- effects ---- *)
(* The cleanup function returned by the last effect run of c, if any: the  *)
(* object hook returns none when the url is empty.                         *)
HasCleanup(c) == status[c] = "mounted" /\ (hook = "indexedDb" \/ url[c] # Empty)

(* cancelRequest.current = true; the operations of c still in flight are   *)
(* the ones this cancels.                                                  *)
CleanupCancel(c) == [cancelRequest EXCEPT ![c] = IF HasCleanup(c) THEN TRUE ELSE @]
CleanupOps(c) ==
    [o \in OpIds |->
        IF HasCleanup(c) /\ ops[o].ctrl = c /\ ops[o].pc \notin {"none", "done"}
        THEN [ops[o] EXCEPT !.stale = TRUE] ELSE ops[o]]

(* A fetchData that joins a fetch call already in flight for u and makes   *)
(* none of its own.                                                        *)
fetchDataStartSingleFlight(c, u, ops0) ==
    LET o == nOps + 1
        joins == \E o1 \in OpIds : ops0[o1].url = u /\ ops0[o1].pc \in {"fetch", "json"}
        hit == hook = "object" /\ Truthy(CacheRead(u))
        pc0 == IF hit \/ joins THEN "done" ELSE IF hook = "indexedDb" THEN "getItem" ELSE "fetch"
    IN  /\ nOps < MaxOps
        /\ nOps' = o
        /\ nFetch' = IF pc0 = "fetch" THEN nFetch + 1 ELSE nFetch
        /\ ops' = [ops0 EXCEPT ![o] =
                     IF pc0 = "done" THEN DoneOp
                     ELSE [NoOp EXCEPT !.ctrl = c, !.url = u, !.pc = pc0]]
        /\ state' = [state EXCEPT ![c] =
                       dispatch(@, IF hit THEN <<LoadingAction, FetchedAction(CacheRead(u))>>
                                   ELSE <<LoadingAction>>)]

(* fetchData() up to its first await, called by the effect of c for url u. *)
(* object: dispatch loading, then the synchronous cache check; a hit       *)
(* dispatches fetched and returns, a miss calls fetch.  indexedDb:         *)
(* dispatch loading, then await cacheDb.getItem(url).                      *)
fetchDataStart(c, u, ops0) ==
    LET o == nOps + 1
        hit == hook = "object" /\ Truthy(CacheRead(u))
        a2 == FetchedAction(CacheRead(u))
        pc0 == IF hook = "indexedDb" THEN "getItem" ELSE IF hit THEN "done" ELSE "fetch"
    IN  /\ nOps < MaxOps
        /\ nOps' = o
        /\ nFetch' = IF pc0 = "fetch" THEN nFetch + 1 ELSE nFetch
        /\ ops' = [ops0 EXCEPT ![o] =
                     IF pc0 = "done" THEN DoneOp
                     ELSE [NoOp EXCEPT !.ctrl = c, !.url = u, !.pc = pc0]]
        /\ state' = [state EXCEPT ![c] =
                       dispatch(@, IF hit THEN <<LoadingAction, a2>> ELSE <<LoadingAction>>)]

(* The effect body for url u, run after the cleanup (if any) of the        *)
(* previous run: nothing without a url, else reset the flag and fetch.     *)
RunEffect(c, u) ==
    IF u = Empty
    THEN /\ cancelRequest' = CleanupCancel(c)
         /\ ops' = CleanupOps(c)
         /\ UNCHANGED <<state, nOps, nFetch>>
    ELSE /\ cancelRequest' = [cancelRequest EXCEPT ![c] = FALSE]
         /\ fetchDataStart(c, u, CleanupOps(c))

(* A component using the hook mounts with url u. *)
Mount(c, u) ==
    /\ status[c] = "fresh"
    /\ status' = [status EXCEPT ![c] = "mounted"]
    /\ url' = [url EXCEPT ![c] = u]
    /\ RunEffect(c, u)
    /\ UNCHANGED <<hook, cache>>

(* The component re-renders with another url: cleanup, then the effect.    *)
SetUrl(c, u) ==
    /\ status[c] = "mounted"
    /\ u # url[c]
    /\ url' = [url EXCEPT ![c] = u]
    /\ RunEffect(c, u)
    /\ UNCHANGED <<hook, cache, status>>

(* The component unmounts: the last cleanup runs. *)
Unmount(c) ==
    /\ status[c] = "mounted"
    /\ status' = [status EXCEPT ![c] = "unmounted"]
    /\ cancelRequest' = CleanupCancel(c)
    /\ ops' = CleanupOps(c)
    /\ UNCHANGED <<hook, cache, url, state, nOps, nFetch>>

(* ---- the asynchronous steps of fetchData ---- *)
InFlight(o, pc) == ops[o].pc = pc
Finish(o) == [ops EXCEPT ![o] = DoneOp]

(* A catch block that swallows the error. *)
CatchSilent(o, e) ==
    /\ ops' = Finish(o)
    /\ UNCHANGED state

(* A catch block that calls fetch again. *)
CatchRetry(o, e) ==
    /\ ops' = [ops EXCEPT ![o].pc = "fetch"]
    /\ UNCHANGED state

(* catch (error): return if cancelled, else dispatch error. *)
Catch(o, e) ==
    /\ ops' = Finish(o)
    /\ Resume(o, IF cancelRequest[ops[o].ctrl] THEN <<>> ELSE <<ErrorAction(e)>>)

(* await cacheDb.getItem(url) resolves with the stored value (null when    *)
(* the key is missing): a truthy value is dispatched as fetched, without a *)
(* look at cancelRequest; otherwise fetch(url, options) is called.  The    *)
(* store is read in this step: writes that complete while the get is       *)
(* pending are seen.                                                       *)
GetItemResolve(o) ==
    /\ InFlight(o, "getItem")
    /\ LET cacheData == getItem(ops[o].url)
       IN  IF Truthy(cacheData)
           THEN /\ ops' = Finish(o)
                /\ Resume(o, <<FetchedAction(cacheData)>>)
                /\ UNCHANGED nFetch
           ELSE /\ ops' = [ops EXCEPT ![o].pc = "fetch"]
                /\ nFetch' = nFetch + 1
                /\ UNCHANGED state
    /\ UNCHANGED <<hook, cache, status, url, cancelRequest, nOps>>

(* await cacheDb.getItem(url) rejects: the await is outside the try block, *)
(* so the promise of fetchData rejects and nothing else runs.              *)
GetItemReject(o) ==
    /\ InFlight(o, "getItem")
    /\ ops' = Finish(o)
    /\ UNCHANGED <<hook, cache, status, url, cancelRequest, state, nOps, nFetch>>

(* await fetch(url, options) resolves with response.ok: response.json() is *)
(* awaited next.                                                           *)
FetchResolveOk(o) ==
    /\ InFlight(o, "fetch")
    /\ ops' = [ops EXCEPT ![o].pc = "json"]
    /\ UNCHANGED <<hook, cache, status, url, cancelRequest, state, nOps, nFetch>>

(* A failure path that stores the reason under the url. *)
FetchResolveNotOkStored(o, statusText) ==
    /\ InFlight(o, "fetch")
    /\ cache' = [cache EXCEPT ![ops[o].url] = statusText]
    /\ Catch(o, statusText)
    /\ UNCHANGED <<hook, status, url, cancelRequest, nOps, nFetch>>

(* await fetch resolves with !response.ok: throw new Error(statusText).    *)
FetchResolveNotOk(o, statusText) ==
    /\ InFlight(o, "fetch")
    /\ Catch(o, statusText)
    /\ UNCHANGED <<hook, cache, status, url, cancelRequest, nOps, nFetch>>

(* await fetch rejects (network failure). *)
FetchReject(o) ==
    /\ InFlight(o, "fetch")
    /\ Catch(o, TypeError)
    /\ UNCHANGED <<hook, cache, status, url, cancelRequest, nOps, nFetch>>

(* A success path that reports fetched first and stores the value later. *)
JsonResolveReportFirst(o, data) ==
    /\ InFlight(o, "json")
    /\ ops' = [ops EXCEPT ![o].pc = "setItem", ![o].data = data]
    /\ Resume(o, IF cancelRequest[ops[o].ctrl] THEN <<>> ELSE <<FetchedAction(data)>>)
    /\ UNCHANGED <<hook, cache, status, url, cancelRequest, nOps, nFetch>>

(* await response.json() resolves with data.  object: cache[url] = data,   *)
(* then fetched unless cancelled.  indexedDb: await cacheDb.setItem.       *)
JsonResolve(o, data) ==
    /\ InFlight(o, "json")
    /\ IF hook = "object"
       THEN /\ cache' = [cache EXCEPT ![ops[o].url] = data]
            /\ ops' = Finish(o)
            /\ Resume(o,
                      IF cancelRequest[ops[o].ctrl] THEN <<>> ELSE <<FetchedAction(data)>>)
       ELSE /\ ops' = [ops EXCEPT ![o].pc = "setItem", ![o].data = data]
            /\ Resume(o, <<>>)
            /\ UNCHANGED cache
    /\ UNCHANGED <<hook, status, url, cancelRequest, nOps, nFetch>>

(* await response.json() rejects (the body is not JSON). *)
JsonReject(o) ==
    /\ InFlight(o, "json")
    /\ Catch(o, SyntaxError)
    /\ UNCHANGED <<hook, cache, status, url, cancelRequest, nOps, nFetch>>

(* A setItem that replaces the whole store by the one entry. *)
SetItemResolveClear(o) ==
    /\ InFlight(o, "setItem")
    /\ cache' = [k \in Urls |-> IF k = ops[o].url THEN ops[o].data ELSE Undefined]
    /\ ops' = Finish(o)
    /\ Resume(o,
              IF cancelRequest[ops[o].ctrl] THEN <<>> ELSE <<FetchedAction(ops[o].data)>>)
    /\ UNCHANGED <<hook, status, url, cancelRequest, nOps, nFetch>>

(* await cacheDb.setItem(url, data) resolves: the value is stored; fetched *)
(* unless cancelled.                                                       *)
SetItemResolve(o) ==
    /\ InFlight(o, "setItem")
    /\ cache' = [cache EXCEPT ![ops[o].url] = ops[o].data]
    /\ ops' = Finish(o)
    /\ Resume(o,
              IF cancelRequest[ops[o].ctrl] THEN <<>> ELSE <<FetchedAction(ops[o].data)>>)
    /\ UNCHANGED <<hook, status, url, cancelRequest, nOps, nFetch>>

(* await cacheDb.setItem rejects: nothing is stored, and the rejection is  *)
(* caught by the catch block of the transport call.                        *)
SetItemReject(o) ==
    /\ InFlight(o, "setItem")
    /\ Catch(o, StoreError)
    /\ UNCHANGED <<hook, cache, status, url, cancelRequest, nOps, nFetch>>

Next ==
    \/ \E c \in Ctrls, u \in Urls \cup {Empty} : Mount(c, u)
    \/ \E c \in Ctrls, u \in Urls \cup {Empty} : SetUrl(c, u)
    \/ \E c \in Ctrls : Unmount(c)
    \/ \E o \in OpIds : GetItemResolve(o)
    \/ \E o \in OpIds : GetItemReject(o)
    \/ \E o \in OpIds : FetchResolveOk(o)
    \/ \E o \in OpIds, t \in StatusTexts : FetchResolveNotOk(o, t)
    \/ \E o \in OpIds : FetchReject(o)
    \/ \E o \in OpIds, d \in Json : JsonResolve(o, d)
    \/ \E o \in OpIds : JsonReject(o)
    \/ \E o \in OpIds : SetItemResolve(o)
    \/ \E o \in OpIds : SetItemReject(o)

Spec == Init /\ [][Next]_vars

(* ---- types ---- *)
TypeOK ==
    /\ hook \in Hooks
    /\ \A k \in Urls : cache[k] \in Json \cup {Undefined}
    /\ \A c \in Ctrls :
         /\ status[c] \in {"fresh", "mounted", "unmounted"}
         /\ url[c] \in Urls \cup {Empty}
         /\ cancelRequest[c] \in BOOLEAN
    /\ nOps \in 0..MaxOps
    /\ nFetch \in 0..nOps
    /\ \A o \in OpIds : (ops[o].pc = "none") <=> (o > nOps)


(* ---- vocabulary of the properties ---- *)
Ctrl(o) == ops[o].ctrl
Pending(o) == ops[o].pc \notin {"none", "done"}
(* Operation o is resumed, resp. runs to its end, in this step. *)
Resumes(o) == Pending(o) /\ ops'[o] # ops[o] /\ ops'[o].pc # ops[o].pc
Finishes(o) == Pending(o) /\ ops'[o].pc = "done"
(* The effect of c runs for url u in this step. *)
Activates(c, u) == Mount(c, u) \/ SetUrl(c, u)

IsIdle(s) == s.data = Undefined /\ s.error = Undefined /\ s.isLoading # "true"
IsLoading(s) == s.data = Undefined /\ s.error = Undefined /\ s.isLoading = "true"
IsFetched(s, v) == s.data = v /\ s.error = Undefined /\ s.isLoading = "false"
IsError(s, e) == s.data = Undefined /\ s.error = e /\ s.isLoading = "false"
IsTerminal(s) == s.data # Undefined \/ s.error # Undefined
(* A JSON value that is stored (null included), resp. stored and not falsy. *)
Held(v) == v \in Json
HeldTruthy(v) == v \in Json \ {Null}

(* C1 (as claimed): once the url of a mounted controller has changed to    *)
(* another non-empty url, a resumption of the operation started for the    *)
(* old url (parked at fetch, json or setItem) changes nothing in the       *)
(* controller's state.                                                     *)
C1_StaleResultDiscarded ==
    [][\A o \in OpIds :
         (/\ ops[o].pc \in {"fetch", "json", "setItem"}
          /\ ops[o].stale
          /\ status[Ctrl(o)] = "mounted"
          /\ url[Ctrl(o)] \in Urls
          /\ Resumes(o))
         => state'[Ctrl(o)] = state[Ctrl(o)]]_vars

(* C2 (as claimed): the state of an unmounted controller never changes,    *)
(* whatever await its operation was parked at.                             *)
C2_NoTransitionAfterDispose ==
    [][\A c \in Ctrls : status[c] = "unmounted" => state'[c] = state[c]]_vars

(* C4 (as claimed): when getItem rejects, the operation goes on to call    *)
(* fetch for its url.                                                      *)
C4_GetFailureIsMiss ==
    [][\A o \in OpIds :
         GetItemReject(o) => (ops'[o].pc = "fetch" /\ nFetch' = nFetch + 1)]_vars

(* C5 (as claimed): when setItem rejects for an operation that is not      *)
(* cancelled, the controller becomes fetched with the payload; and no      *)
(* controller ever carries an error that is not a transport error.         *)
C5_SetFailureStillFetched ==
    [][/\ \A o \in OpIds :
            (SetItemReject(o) /\ ~ops[o].stale)
            => IsFetched(state'[Ctrl(o)], ops[o].data)
       /\ \A c \in Ctrls : state'[c].error \in TransportErrors \cup {Undefined}]_vars

(* C6 (as claimed): an effect run with the empty url leaves the controller *)
(* idle, and makes no fetch call, no operation and no cache write.         *)
C6_EmptyUrlYieldsIdle ==
    [][\A c \in Ctrls :
         Activates(c, Empty)
         => (/\ IsIdle(state'[c])
             /\ nFetch' = nFetch /\ nOps' = nOps /\ cache' = cache)]_vars

(* C7 (as claimed, in the form a finite run refutes): an operation that    *)
(* runs to its end without having been cancelled leaves its controller in  *)
(* a terminal state, fetched or error.                                     *)
C7_UncancelledEndsTerminal ==
    [][\A o \in OpIds :
         (Finishes(o) /\ ~ops[o].stale) => IsTerminal(state'[Ctrl(o)])]_vars

(* C9 (as claimed): mounting with a url that is not cached puts the        *)
(* controller in a loading state that differs from the initial (idle)      *)
(* state, reports the operation as in flight and carries no data and no    *)
(* error.                                                                  *)
C9_LoadingDistinctFromIdle ==
    [][\A c \in Ctrls, u \in Urls :
         (Mount(c, u) /\ ~Held(cache[u]))
         => (IsLoading(state'[c]) /\ state'[c] # state[c])]_vars


(* The hit check of the hook in use, on the entry of url k. *)
LookupHit(k) == Truthy(IF hook = "object" THEN CacheRead(k) ELSE getItem(k))

(* C3 (as claimed): when the cache holds a value for the url that an       *)
(* operation looks up, the operation makes no fetch call and the           *)
(* controller becomes fetched with exactly that value.                     *)
C3_HeldValueSkipsTransport ==
    [][/\ \A c \in Ctrls, u \in Urls :
            (hook = "object" /\ Activates(c, u) /\ Held(cache[u]))
            => (IsFetched(state'[c], cache[u]) /\ nFetch' = nFetch)
       /\ \A o \in OpIds :
            (GetItemResolve(o) /\ Held(cache[ops[o].url]))
            => (IsFetched(state'[Ctrl(o)], cache[ops[o].url]) /\ nFetch' = nFetch)]_vars

(* C3 (amended): when the lookup of an operation (the check at activation  *)
(* in the object hook, the resolved getItem in the indexedDb hook) finds a *)
(* truthy value, the operation ends there without a fetch call, now or     *)
(* later, and the controller becomes fetched with exactly that value.      *)
C3_TruthyHitSkipsTransport ==
    [][/\ \A c \in Ctrls, u \in Urls :
            (hook = "object" /\ Activates(c, u) /\ HeldTruthy(cache[u]))
            => (/\ IsFetched(state'[c], cache[u])
                /\ nFetch' = nFetch
                /\ ops'[nOps'].pc = "done")
       /\ \A o \in OpIds :
            (GetItemResolve(o) /\ HeldTruthy(cache[ops[o].url]))
            => (/\ IsFetched(state'[Ctrl(o)], cache[ops[o].url])
                /\ nFetch' = nFetch
                /\ ops'[o].pc = "done")
       /\ \A o \in OpIds : ops[o].pc = "done" => ops'[o].pc = "done"]_vars

(* Two operations ran, one fetch call was made, and both controllers show  *)
(* truthy data: one of them was served from the cache.                     *)
C3_Witness ==
    /\ nOps = 2 /\ nFetch = 1
    /\ \A c \in Ctrls : HeldTruthy(state[c].data) /\ state[c].error = Undefined

(* A resumption of o after the transport call (parked at json or setItem)  *)
(* that makes its controller show data.                                    *)
ReportsFetched(o) ==
    /\ ops[o].pc \in {"json", "setItem"}
    /\ Resumes(o)
    /\ state'[Ctrl(o)] # state[Ctrl(o)]
    /\ state'[Ctrl(o)].data # Undefined

(* C8 (as claimed): when a controller comes to show the payload of a       *)
(* transport call, the cache holds that payload for the url, and a lookup  *)
(* of the url at that point is a hit.                                      *)
C8_WriteThenHit ==
    [][\A o \in OpIds, k \in Urls :
         (ReportsFetched(o) /\ k = ops[o].url)
         => (/\ cache'[k] = state'[Ctrl(o)].data
             /\ LookupHit(k)')]_vars

(* C8 (amended): when a controller comes to show the payload P of a        *)
(* transport call, the cache already holds P for the url; a lookup of the  *)
(* url at that point is a hit exactly when P is truthy.                    *)
C8_WriteBeforeFetched ==
    [][\A o \in OpIds, k \in Urls :
         (ReportsFetched(o) /\ k = ops[o].url)
         => (/\ cache'[k] = state'[Ctrl(o)].data
             /\ Held(cache'[k])
             /\ LookupHit(k)' <=> HeldTruthy(cache'[k]))]_vars

(* The only operation so far fetched a truthy payload: its controller      *)
(* shows it and the cache holds it.                                        *)
C8_Witness ==
    /\ nOps = 1 /\ nFetch = 1
    /\ \E c \in Ctrls :
         /\ status[c] = "mounted" /\ url[c] \in Urls
         /\ HeldTruthy(state[c].data)
         /\ cache[url[c]] = state[c].data

(* The outcome of a failed transport call of o with reason r. *)
Failed(o, r) ==
    /\ cache' = cache
    /\ ~ops[o].stale => IsError(state'[Ctrl(o)], r)

(* C10: when the transport call of an operation fails (response not ok,    *)
(* fetch rejected, body not JSON), the cache is unchanged and, unless the  *)
(* operation was cancelled, the controller becomes error with that reason. *)
C10_TransportFailure ==
    [][\A o \in OpIds :
         /\ \A t \in StatusTexts : FetchResolveNotOk(o, t) => Failed(o, t)
         /\ FetchReject(o) => Failed(o, TypeError)
         /\ JsonReject(o) => Failed(o, SyntaxError)]_vars

(* The only operation so far failed at the transport: its controller shows *)
(* the reason and the cache is still empty.                                *)
C10_Witness ==
    /\ nOps = 1 /\ nFetch = 1
    /\ \E c \in Ctrls : status[c] = "mounted" /\ state[c].error \in TransportErrors
    /\ \A k \in Urls : cache[k] = Undefined

(* ---- the cache as the properties see it ---- *)
(* get(k) of the cache in use: the property read of the object, the        *)
(* resolved getItem of the store.                                          *)
Get(k) == IF hook = "object" THEN CacheRead(k) ELSE getItem(k)

(* Operation o stores p under k in this step: cache[url] = data of the     *)
(* object hook, the completed setItem(url, data) of the indexedDb hook.    *)
Writes(o, k, p) ==
    /\ ops[o].url = k
    /\ \/ hook = "object" /\ JsonResolve(o, p)
       \/ SetItemResolve(o) /\ ops[o].data = p

(* data and error are not both populated. *)
Exclusive(s) == s.data = Undefined \/ s.error = Undefined

(* C11: in every state a controller reaches, data and error are not both   *)
(* populated; the loading dispatch of an activation leaves neither (or, on *)
(* a hit of the object hook, the cached value and no error); every state   *)
(* that newly shows data shows no error, and every state that newly shows  *)
(* an error shows no data, whatever the state before was.                  *)
C11_DataErrorExclusive ==
    [][\A c \in Ctrls :
         /\ Exclusive(state'[c])
         /\ \A u \in Urls :
              Activates(c, u)
              => (/\ state'[c].error = Undefined
                  /\ state'[c].data =
                       IF hook = "object" /\ Truthy(cache[u]) THEN cache[u] ELSE Undefined)
         /\ (state'[c] # state[c] /\ state'[c].data # Undefined)
            => (state'[c].data \in Json /\ state'[c].error = Undefined)
         /\ (state'[c] # state[c] /\ state'[c].error # Undefined)
            => state'[c].data = Undefined]_vars

(* One controller ran both operations: the one for "/a" stored a truthy    *)
(* payload, the one for "/b" failed, and the controller shows the error    *)
(* and no data.                                                            *)
C11_Witness ==
    /\ nOps = 2 /\ \A o \in OpIds : ops[o].pc = "done"
    /\ HeldTruthy(cache["/a"]) /\ cache["/b"] = Undefined
    /\ \E c \in Ctrls :
         /\ status[c] = "mounted" /\ url[c] = "/b"
         /\ \A d \in Ctrls \ {c} : status[d] = "fresh"
         /\ state[c].error \in TransportErrors /\ state[c].data = Undefined

(* C12 (as claimed): when the body of a cancelled operation arrives, the   *)
(* payload is still stored under the operation's url (at once in the       *)
(* object hook, when setItem completes in the indexedDb hook), and the     *)
(* state of the operation's controller does not change.                    *)
C12_CancelledStillWrites ==
    [][\A o \in OpIds, k \in Urls :
         (ops[o].stale /\ k = ops[o].url)
         => (/\ \A p \in Json :
                  JsonResolve(o, p)
                  => (/\ IF hook = "object"
                         THEN cache'[k] = p
                         ELSE ops'[o].pc = "setItem" /\ ops'[o].data = p
                      /\ state'[Ctrl(o)] = state[Ctrl(o)])
             /\ SetItemResolve(o)
                => (cache'[k] = ops[o].data /\ state'[Ctrl(o)] = state[Ctrl(o)]))]_vars

(* C13: in the step in which an operation stores payload p under k, get(k) *)
(* comes to return p; in every step in which no operation stores a value   *)
(* under k, get(k) returns what it returned before.                        *)
C13_RoundTrip ==
    [][\A k \in Urls :
         /\ \A o \in OpIds, p \in Json : Writes(o, k, p) => Get(k)' = p
         /\ (~\E o \in OpIds, p \in Json : Writes(o, k, p)) => Get(k)' = Get(k)]_vars

(* Two transport calls were made and both operations are over; one key     *)
(* holds null, which get returns, and the other key was never written.     *)
C13_Witness ==
    /\ nOps = 2 /\ nFetch = 2 /\ \A o \in OpIds : ops[o].pc = "done"
    /\ \E k \in Urls :
         /\ cache[k] = Null /\ Get(k) = Null
         /\ \A j \in Urls \ {k} : cache[j] = Undefined

(* C14: a step makes at most one fetch call, and only for an operation     *)
(* that has made none (one an activation starts in this step, or one whose *)
(* getItem resolves); an operation past its fetch call never returns to    *)
(* it; a transport failure ends the operation, and an ended operation      *)
(* stays ended: a further fetch call needs a further activation.           *)
C14_TransportAtMostOnce ==
    [][/\ nFetch' \in {nFetch, nFetch + 1}
       /\ nFetch' = nFetch + 1
          => \E o \in OpIds :
               /\ ops'[o].pc = "fetch"
               /\ \/ ops[o].pc = "getItem"
                  \/ ops[o].pc = "none" /\ \E c \in Ctrls, u \in Urls : Activates(c, u)
       /\ \A o \in OpIds :
            /\ (ops'[o].pc = "fetch" /\ ops[o].pc # "fetch")
               => (ops[o].pc \in {"none", "getItem"} /\ nFetch' = nFetch + 1)
            /\ ((\E t \in StatusTexts : FetchResolveNotOk(o, t)) \/ FetchReject(o) \/ JsonReject(o))
               => ops'[o].pc = "done"
            /\ ops[o].pc = "done" => ops'[o] = ops[o]]_vars

(* One controller failed twice, the second time after a change of url:     *)
(* two operations, two fetch calls, nothing cached.                        *)
C14_Witness ==
    /\ nOps = 2 /\ nFetch = 2 /\ \A o \in OpIds : ops[o].pc = "done"
    /\ \A k \in Urls : cache[k] = Undefined
    /\ \E c \in Ctrls :
         /\ status[c] = "mounted" /\ state[c].error \in TransportErrors
         /\ \A d \in Ctrls \ {c} : status[d] = "fresh"

(* Operation o has its transport call (fetch, then json) in flight for k. *)
TransportInFlight(o, k) == ops[o].url = k /\ ops[o].pc \in {"fetch", "json"}

(* C15: the lookup of an operation looks at the cache entry alone.  When   *)
(* it finds no truthy value for k while a transport call for k is in       *)
(* flight, it calls fetch for k all the same: in the object hook at the    *)
(* activation, in the indexedDb hook when getItem resolves.                *)
C15_NoSingleFlight ==
    [][\A k \in Urls :
         (\E o1 \in OpIds : TransportInFlight(o1, k))
         => (/\ \A c \in Ctrls :
                  (hook = "object" /\ Activates(c, k) /\ ~Truthy(CacheRead(k)))
                  => (/\ nFetch' = nFetch + 1
                      /\ ops'[nOps'].pc = "fetch" /\ ops'[nOps'].url = k)
             /\ \A o \in OpIds :
                  (GetItemResolve(o) /\ ops[o].url = k /\ ~Truthy(getItem(k)))
                  => (nFetch' = nFetch + 1 /\ ops'[o].pc = "fetch"))]_vars

(* Two mounted controllers, the same url, nothing cached for it, and a     *)
(* fetch call of each in flight.                                           *)
C15_Witness ==
    \E o1, o2 \in OpIds, k \in Urls :
        /\ o1 # o2 /\ Ctrl(o1) # Ctrl(o2)
        /\ ops[o1].pc = "fetch" /\ ops[o2].pc = "fetch"
        /\ ops[o1].url = k /\ ops[o2].url = k
        /\ ~ops[o1].stale /\ ~ops[o2].stale
        /\ cache[k] = Undefined
        /\ url[Ctrl(o1)] = k /\ url[Ctrl(o2)] = k

(* C16: no step removes an entry; a step in which an operation is resumed  *)
(* leaves the entries of all keys but the operation's url as they were;    *)
(* an activation and an unmount leave the whole cache as it was.           *)
C16_CacheFrame ==
    [][/\ \A k \in Urls : cache[k] # Undefined => cache'[k] # Undefined
       /\ \A o \in OpIds :
            Resumes(o) => \A k \in Urls \ {ops[o].url} : cache'[k] = cache[k]
       /\ \A c \in Ctrls :
            ((\E u \in Urls \cup {Empty} : Activates(c, u)) \/ Unmount(c))
            => cache' = cache]_vars

(* Both keys were written, with different payloads: the second write left  *)
(* the first entry alone.                                                  *)
C16_Witness ==
    /\ nOps = 2 /\ nFetch = 2
    /\ cache["/a"] = "[post]" /\ cache["/b"] = "[]"

(* C17 (as claimed): when the entry of the url is the empty array or null, *)
(* the lookup is a miss and fetch is called.                               *)
C17_EmptyOrFalsyIsMiss ==
    [][/\ \A c \in Ctrls, u \in Urls :
            (hook = "object" /\ Activates(c, u) /\ cache[u] \in {"[]", Null})
            => nFetch' = nFetch + 1
       /\ \A o \in OpIds :
            (GetItemResolve(o) /\ cache[ops[o].url] \in {"[]", Null})
            => nFetch' = nFetch + 1]_vars

(* C17 (amended): an absent entry and a null entry are both a miss, and    *)
(* fetch is called; the empty array is truthy and is a hit: no fetch call, *)
(* and the controller becomes fetched with the empty array.                *)
C17_FalsyIsMissEmptyIsHit ==
    [][/\ \A c \in Ctrls, u \in Urls :
            (hook = "object" /\ Activates(c, u))
            => (/\ cache[u] \in {Undefined, Null}
                   => (nFetch' = nFetch + 1 /\ ops'[nOps'].pc = "fetch")
                /\ cache[u] = "[]"
                   => (nFetch' = nFetch /\ IsFetched(state'[c], "[]")))
       /\ \A o \in OpIds :
            GetItemResolve(o)
            => (/\ cache[ops[o].url] \in {Undefined, Null}
                   => (nFetch' = nFetch + 1 /\ ops'[o].pc = "fetch")
                /\ cache[ops[o].url] = "[]"
                   => (nFetch' = nFetch /\ IsFetched(state'[Ctrl(o)], "[]")))]_vars

(* The empty array is cached, one fetch call was made for two operations,  *)
(* and both controllers show the empty array.                              *)
C17_Witness ==
    /\ nOps = 2 /\ nFetch = 1
    /\ \E k \in Urls : cache[k] = "[]"
    /\ \A c \in Ctrls : IsFetched(state[c], "[]")

(* C18: every entry is a JSON value; an entry of k changes only in a step  *)
(* in which an operation for k stores the body its own transport call      *)
(* returned, and the body an operation holds between json and setItem is   *)
(* the one its json resolved with.                                         *)
C18_CacheIntegrity ==
    [][/\ \A k \in Urls :
            /\ cache'[k] \in Json \cup {Undefined}
            /\ cache'[k] # cache[k]
               => \E o \in OpIds, p \in Json : Writes(o, k, p) /\ cache'[k] = p
       /\ \A o \in OpIds :
            (ops'[o].data # ops[o].data /\ ops'[o].data # Undefined)
            => (/\ ops'[o].url = ops[o].url
                /\ \E p \in Json : JsonResolve(o, p) /\ ops'[o].data = p)]_vars

(* The only operation so far was cancelled by an unmount and stored its    *)
(* body all the same: the cache holds a value no controller shows.         *)
C18_Witness ==
    /\ nOps = 1 /\ nFetch = 1
    /\ \E k \in Urls : Held(cache[k])
    /\ \E c \in Ctrls : status[c] = "unmounted" /\ state[c].data = Undefined
    /\ \A c \in Ctrls : state[c].data = Undefined

(* C19 (as claimed): a mounted controller with a non-empty url comes to    *)
(* show data only through its own activation for that url (a hit) or       *)
(* through the resumption of an operation started for that url; and data   *)
(* on show does not outlive a change of the url.                           *)
C19_DataMatchesIdentifier ==
    [][\A c \in Ctrls :
         (status'[c] = "mounted" /\ url'[c] \in Urls /\ state'[c].data # Undefined)
         => \/ state'[c] = state[c] /\ url'[c] = url[c]
            \/ Activates(c, url'[c]) /\ state'[c].data = cache[url'[c]]
            \/ \E o \in OpIds :
                 Ctrl(o) = c /\ Resumes(o) /\ ops[o].url = url[c]]_vars

====
